---- MODULE Spec2Model ----
(***************************************************************************)
(* Model of the Python clients for the agents.kruise.io custom resources   *)
(* (Sandbox, SandboxSet, SandboxClaim).                                    *)
(*                                                                         *)
(* A client is a thin facade over the Kubernetes CustomObjectsApi.  The    *)
(* transport (CustomObjectsApi, watch.Watch) is the environment: each      *)
(* request gets an arbitrary reply, and a watch stream carries arbitrary   *)
(* events.  Python dicts are TLA+ records, keyword arguments of a          *)
(* transport call are the fields of the call record, Optional[str] = None  *)
(* is the value None, and Optional[int] is a sequence of length 0 or 1.    *)
(***************************************************************************)
EXTENDS Integers, Sequences, FiniteSets, TLC

VARIABLES
    client,     \* the client object: its class and its attributes
    lastOp,     \* the client method last invoked, with its arguments
    calls,      \* the transport calls that invocation has issued, in order
    outcome,    \* what that invocation gave its caller: a return or a raise
    gen,        \* the generator made by watch_resources
    sent,       \* events the server has put on the current watch stream
    closed,     \* whether the server has closed the current watch stream
    wait,       \* the frame of wait_for_resource_condition
    now,        \* time.time(), counted from the start of the latest invocation
    store,      \* the resources the cluster holds, when the transport is a cluster
    history,    \* the invocations made against that cluster, oldest first
    ctor        \* the frame of the constructor (__init__)

vars == <<client, lastOp, calls, outcome, gen, sent, closed, wait, now, store, history,
          ctor>>

(***************************************************************************)
(* Bounds of the model.                                                    *)
(***************************************************************************)
MaxEvents == 2      \* events one watch stream carries

(***************************************************************************)
(* constants.py                                                            *)
(***************************************************************************)
SANDBOX_API_GROUP == "agents.kruise.io"
SANDBOX_API_VERSION == "v1alpha1"
SANDBOX_PLURAL == "sandboxes"
SANDBOXSET_API_GROUP == "agents.kruise.io"
SANDBOXSET_API_VERSION == "v1alpha1"
SANDBOXSET_PLURAL == "sandboxsets"
DEFAULT_NAMESPACE == "default"

\* The default of patch_resource's content_type parameter.
MERGE_PATCH == "application/merge-patch+json"

(***************************************************************************)
(* Python values.                                                          *)
(***************************************************************************)
None == "<None>"

\* An argument the caller leaves out of the call.
Omitted == "<omitted>"

\* The value of a parameter with a default.
Param(arg, default) == IF arg = Omitted THEN default ELSE arg

\* bool(x) of an Optional[str]: None and the empty string are falsy.
Truthy(x) == x # None /\ x # ""

\* Mutant: `a if a is not None else b`.
PyOr_NoneOnly(a, b) == IF a # None THEN a ELSE b

\* The expression `a or b`.
PyOr(a, b) == IF Truthy(a) THEN a ELSE b

(***************************************************************************)
(* Inputs.                                                                 *)
(***************************************************************************)
ApiClasses == {"agents_api_client.SandboxClient", "agents_api_client.SandboxSetClient"}
TypedClasses == {"openkruise.SandboxClient", "openkruise.SandboxSetClient",
                 "openkruise.SandboxClaimClient"}
Classes == ApiClasses \cup TypedClasses

ConfigNamespaces == {DEFAULT_NAMESPACE, "team-a"}
NamespaceArgs == {None, "", "other-ns"}
Names == {"sb-a", "sb-b"}
SelectorArgs == {None, "app=test"}
ContentTypeArgs == {Omitted, MERGE_PATCH, "application/json-patch+json"}
GraceArgs == {<<>>, <<30>>}
ReplicaArgs == {-1, 0, 5}

Bodies == {
    [spec |-> [paused |-> TRUE]],
    [metadata |-> [name |-> "sb-a"], spec |-> [replicas |-> 2]],
    [status |-> [replicas |-> 2, readyReplicas |-> 2]] }

Responses == {
    [metadata |-> [name |-> "sb-a"], spec |-> [replicas |-> 2]],
    [metadata |-> [name |-> "sb-a"], spec |-> [paused |-> TRUE]],
    [metadata |-> [name |-> "sb-b"]] }

ErrStatuses == {401, 403, 404, 409, 500}

\* What the transport does with one request: a response or an ApiException.
Replies == {[ok |-> TRUE, value |-> r] : r \in Responses}
           \cup {[ok |-> FALSE, status |-> s] : s \in ErrStatuses}

(***************************************************************************)
(* Constructors.                                                           *)
(***************************************************************************)
\* BaseCustomResourceClient.__init__
BaseInit(cls, api_group, api_version, plural, namespace) ==
    [cls |-> cls, api_group |-> api_group, api_version |-> api_version,
     plural |-> plural, namespace |-> namespace]

\* agents_api_client.SandboxClient.__init__
SandboxClientInit(namespace) ==
    BaseInit("agents_api_client.SandboxClient",
             SANDBOX_API_GROUP, SANDBOX_API_VERSION, SANDBOX_PLURAL, namespace)

\* Mutant: the SandboxSet client is built with the Sandbox plural.
SandboxSetClientInit_SandboxPlural(namespace) ==
    BaseInit("agents_api_client.SandboxSetClient",
             SANDBOXSET_API_GROUP, SANDBOXSET_API_VERSION, SANDBOX_PLURAL, namespace)

\* agents_api_client.SandboxSetClient.__init__
SandboxSetClientInit(namespace) ==
    BaseInit("agents_api_client.SandboxSetClient",
             SANDBOXSET_API_GROUP, SANDBOXSET_API_VERSION, SANDBOXSET_PLURAL, namespace)

\* openkruise.agents.SandboxClient.__init__
TypedSandboxClientInit(namespace) ==
    [cls |-> "openkruise.SandboxClient", api_group |-> "agents.kruise.io",
     api_version |-> "v1alpha1", plural |-> "sandboxes", kind |-> "Sandbox",
     namespace |-> namespace]

\* openkruise.agents.SandboxSetClient.__init__
TypedSandboxSetClientInit(namespace) ==
    [cls |-> "openkruise.SandboxSetClient", api_group |-> "agents.kruise.io",
     api_version |-> "v1alpha1", plural |-> "sandboxsets", kind |-> "SandboxSet",
     namespace |-> namespace]

\* openkruise.agents.SandboxClaimClient.__init__
TypedSandboxClaimClientInit(namespace) ==
    [cls |-> "openkruise.SandboxClaimClient", api_group |-> "agents.kruise.io",
     api_version |-> "v1alpha1", plural |-> "sandboxclaims", kind |-> "SandboxClaim",
     namespace |-> namespace]

NewClient(cls, namespace) ==
    CASE cls = "agents_api_client.SandboxClient" -> SandboxClientInit(namespace)
      [] cls = "agents_api_client.SandboxSetClient" -> SandboxSetClientInit(namespace)
      [] cls = "openkruise.SandboxClient" -> TypedSandboxClientInit(namespace)
      [] cls = "openkruise.SandboxSetClient" -> TypedSandboxSetClientInit(namespace)
      [] cls = "openkruise.SandboxClaimClient" -> TypedSandboxClaimClientInit(namespace)

(***************************************************************************)
(* Results of a call.  A method is an operator from the client, the        *)
(* arguments and the transport's reply to [self, calls, outcome]: the      *)
(* client object after the call, the transport calls the method issued     *)
(* and what its caller gets.                                               *)
(***************************************************************************)
Return(v) == [kind |-> "return", value |-> v]
Raise(e) == [kind |-> "raise", exc |-> e]
ApiException(status) == [class |-> "ApiException", status |-> status]

\* The transport's result as the calling Python expression sees it.
Transport(reply) ==
    IF reply.ok THEN Return(reply.value) ELSE Raise(ApiException(reply.status))

\* Mutant: a request that fails is sent once more before the error is raised.
PassThrough_RetriesOnce(self, request, reply) ==
    [self |-> self,
     calls |-> IF reply.ok
               THEN <<[request |-> request, reply |-> reply]>>
               ELSE <<[request |-> request, reply |-> reply],
                      [request |-> request, reply |-> reply]>>,
     outcome |-> Transport(reply)]

\* `return self.custom_objects_api.<api>(**kwargs)`: one request, whose reply is
\* what the caller gets.
PassThrough(self, request, reply) ==
    [self |-> self,
     calls |-> <<[request |-> request, reply |-> reply]>>,
     outcome |-> Transport(reply)]

(***************************************************************************)
(* BaseCustomResourceClient: one transport call per method.                *)
(***************************************************************************)
\* Mutant: create stamps the client's apiVersion on the body before sending it.
create_resource_StampsApiVersion(self, body, namespace, reply) ==
    LET ns == PyOr(namespace, self.namespace)
        stamped == [apiVersion |-> self.api_group \o "/" \o self.api_version] @@ body IN
    PassThrough(self, [api |-> "create_namespaced_custom_object",
                       group |-> self.api_group, version |-> self.api_version,
                       namespace |-> ns, plural |-> self.plural, body |-> stamped], reply)

create_resource(self, body, namespace, reply) ==
    LET ns == PyOr(namespace, self.namespace) IN
    PassThrough(self, [api |-> "create_namespaced_custom_object",
                       group |-> self.api_group, version |-> self.api_version,
                       namespace |-> ns, plural |-> self.plural, body |-> body], reply)

\* Mutant: get always asks in the client's own namespace.
get_resource_IgnoresNamespace(self, name, namespace, reply) ==
    LET ns == self.namespace IN
    PassThrough(self, [api |-> "get_namespaced_custom_object",
                       group |-> self.api_group, version |-> self.api_version,
                       namespace |-> ns, plural |-> self.plural, name |-> name], reply)

get_resource(self, name, namespace, reply) ==
    LET ns == PyOr(namespace, self.namespace) IN
    PassThrough(self, [api |-> "get_namespaced_custom_object",
                       group |-> self.api_group, version |-> self.api_version,
                       namespace |-> ns, plural |-> self.plural, name |-> name], reply)

\* Mutant: update replaces the resource (PUT) instead of patching it.
update_resource_Replaces(self, name, body, namespace, reply) ==
    LET ns == PyOr(namespace, self.namespace) IN
    PassThrough(self, [api |-> "replace_namespaced_custom_object",
                       group |-> self.api_group, version |-> self.api_version,
                       namespace |-> ns, plural |-> self.plural, name |-> name,
                       body |-> body], reply)

update_resource(self, name, body, namespace, reply) ==
    LET ns == PyOr(namespace, self.namespace) IN
    PassThrough(self, [api |-> "patch_namespaced_custom_object",
                       group |-> self.api_group, version |-> self.api_version,
                       namespace |-> ns, plural |-> self.plural, name |-> name,
                       body |-> body], reply)

\* Mutant: the status update goes to the main resource's patch endpoint.
update_resource_status_PatchesMain(self, name, body, namespace, reply) ==
    LET ns == PyOr(namespace, self.namespace) IN
    PassThrough(self, [api |-> "patch_namespaced_custom_object",
                       group |-> self.api_group, version |-> self.api_version,
                       namespace |-> ns, plural |-> self.plural, name |-> name,
                       body |-> body], reply)

update_resource_status(self, name, body, namespace, reply) ==
    LET ns == PyOr(namespace, self.namespace) IN
    PassThrough(self, [api |-> "patch_namespaced_custom_object_status",
                       group |-> self.api_group, version |-> self.api_version,
                       namespace |-> ns, plural |-> self.plural, name |-> name,
                       body |-> body], reply)

\* client.V1DeleteOptions(), with grace_period_seconds set when one is given.
DeleteOptions(grace_period_seconds) ==
    [kind |-> "V1DeleteOptions", grace_period_seconds |-> grace_period_seconds]

\* Mutant: a delete of a missing resource raises a not-found exception.
delete_resource_TranslatesNotFound(self, name, namespace, grace_period_seconds, reply) ==
    LET ns == PyOr(namespace, self.namespace)
        body == DeleteOptions(grace_period_seconds)
        r == PassThrough(self, [api |-> "delete_namespaced_custom_object",
                                group |-> self.api_group, version |-> self.api_version,
                                namespace |-> ns, plural |-> self.plural, name |-> name,
                                body |-> body], reply) IN
    IF r.outcome.kind = "raise" /\ r.outcome.exc.status = 404
    THEN [r EXCEPT !.outcome = Raise([class |-> "SandboxNotFoundException",
                                      message |-> <<"Sandbox", name, ns>>])]
    ELSE r

delete_resource(self, name, namespace, grace_period_seconds, reply) ==
    LET ns == PyOr(namespace, self.namespace)
        body == DeleteOptions(grace_period_seconds) IN
    PassThrough(self, [api |-> "delete_namespaced_custom_object",
                       group |-> self.api_group, version |-> self.api_version,
                       namespace |-> ns, plural |-> self.plural, name |-> name,
                       body |-> body], reply)

list_resources(self, namespace, label_selector, field_selector, reply) ==
    LET ns == PyOr(namespace, self.namespace) IN
    PassThrough(self, [api |-> "list_namespaced_custom_object",
                       group |-> self.api_group, version |-> self.api_version,
                       namespace |-> ns, plural |-> self.plural,
                       label_selector |-> label_selector,
                       field_selector |-> field_selector], reply)

\* Mutant: the resolved namespace is stored in the client.
patch_resource_StoresNamespace(self, name, body, namespace, content_type, reply) ==
    LET ns == PyOr(namespace, self.namespace) IN
    PassThrough([self EXCEPT !.namespace = ns],
                [api |-> "patch_namespaced_custom_object",
                 group |-> self.api_group, version |-> self.api_version,
                 namespace |-> ns, plural |-> self.plural, name |-> name,
                 body |-> body, content_type |-> content_type], reply)

\* Mutant: the content type is not handed to the transport.
patch_resource_DropsContentType(self, name, body, namespace, content_type, reply) ==
    LET ns == PyOr(namespace, self.namespace) IN
    PassThrough(self, [api |-> "patch_namespaced_custom_object",
                       group |-> self.api_group, version |-> self.api_version,
                       namespace |-> ns, plural |-> self.plural, name |-> name,
                       body |-> body], reply)

patch_resource(self, name, body, namespace, content_type, reply) ==
    LET ns == PyOr(namespace, self.namespace) IN
    PassThrough(self, [api |-> "patch_namespaced_custom_object",
                       group |-> self.api_group, version |-> self.api_version,
                       namespace |-> ns, plural |-> self.plural, name |-> name,
                       body |-> body, content_type |-> content_type], reply)

\* Mutant: delete-collection ignores the field selector.
delete_collection_resources_DropsFieldSelector(self, namespace, label_selector, field_selector, reply) ==
    LET ns == PyOr(namespace, self.namespace) IN
    PassThrough(self, [api |-> "delete_collection_namespaced_custom_object",
                       group |-> self.api_group, version |-> self.api_version,
                       namespace |-> ns, plural |-> self.plural,
                       label_selector |-> label_selector,
                       field_selector |-> None], reply)

delete_collection_resources(self, namespace, label_selector, field_selector, reply) ==
    LET ns == PyOr(namespace, self.namespace) IN
    PassThrough(self, [api |-> "delete_collection_namespaced_custom_object",
                       group |-> self.api_group, version |-> self.api_version,
                       namespace |-> ns, plural |-> self.plural,
                       label_selector |-> label_selector,
                       field_selector |-> field_selector], reply)

(***************************************************************************)
(* agents_api_client.SandboxClient / SandboxSetClient: the methods that    *)
(* do more than forward to the base class.                                 *)
(***************************************************************************)
\* The f-string of a not-found message, as its parts.
NotFoundMessage(kind, name, ns) ==
    <<kind, " '", name, "' not found in namespace '", ns, "'">>

SandboxNotFoundException(name, ns) ==
    [class |-> "SandboxNotFoundException", message |-> NotFoundMessage("Sandbox", name, ns)]

SandboxSetNotFoundException(name, ns) ==
    [class |-> "SandboxSetNotFoundException",
     message |-> NotFoundMessage("SandboxSet", name, ns)]

\* Mutant: the except clause translates every ApiException.
TranslateNotFound_AnyStatus(r, notFound) ==
    IF r.outcome.kind = "raise" /\ r.outcome.exc.class = "ApiException"
    THEN [r EXCEPT !.outcome = Raise(notFound)]
    ELSE r

\* Mutant: the except clause re-raises whatever it caught.
TranslateNotFound_Reraises(r, notFound) == r

\* try: return ... / except ApiException as e: if e.status == 404: raise notFound / raise
TranslateNotFound(r, notFound) ==
    IF r.outcome.kind = "raise" /\ r.outcome.exc.class = "ApiException"
    THEN IF r.outcome.exc.status = 404
         THEN [r EXCEPT !.outcome = Raise(notFound)]
         ELSE r
    ELSE r

get_sandbox(self, name, namespace, reply) ==
    LET ns == PyOr(namespace, self.namespace) IN
    TranslateNotFound(get_resource(self, name, namespace, reply),
                      SandboxNotFoundException(name, ns))

\* Mutant: the exception is built from the namespace argument as passed.
get_sandboxset_ReportsArgument(self, name, namespace, reply) ==
    TranslateNotFound(get_resource(self, name, namespace, reply),
                      SandboxSetNotFoundException(name, namespace))

get_sandboxset(self, name, namespace, reply) ==
    LET ns == PyOr(namespace, self.namespace) IN
    TranslateNotFound(get_resource(self, name, namespace, reply),
                      SandboxSetNotFoundException(name, ns))

\* Mutant: the patch body also names the resource.
scale_sandboxset_NamesResource(self, name, replicas, namespace, reply) ==
    LET ns == PyOr(namespace, self.namespace)
        patch_body == [metadata |-> [name |-> name], spec |-> [replicas |-> replicas]] IN
    PassThrough(self, [api |-> "patch_namespaced_custom_object",
                       group |-> self.api_group, version |-> self.api_version,
                       namespace |-> ns, plural |-> self.plural, name |-> name,
                       body |-> patch_body], reply)

scale_sandboxset(self, name, replicas, namespace, reply) ==
    LET ns == PyOr(namespace, self.namespace)
        patch_body == [spec |-> [replicas |-> replicas]] IN
    PassThrough(self, [api |-> "patch_namespaced_custom_object",
                       group |-> self.api_group, version |-> self.api_version,
                       namespace |-> ns, plural |-> self.plural, name |-> name,
                       body |-> patch_body], reply)

\* d.get(key, default) of a dict d
DictGet(d, key, default) == IF key \in DOMAIN d THEN d[key] ELSE default

\* Mutant: the default is 1, the default of a workload's replicas.
SpecReplicas_DefaultOne(sandboxset) ==
    IF "spec" \in DOMAIN sandboxset
    THEN DictGet(sandboxset.spec, "replicas", 1)
    ELSE 1

\* sandboxset.get('spec', {}).get('replicas', 0): the default {} has no key.
SpecReplicas(sandboxset) ==
    IF "spec" \in DOMAIN sandboxset
    THEN DictGet(sandboxset.spec, "replicas", 0)
    ELSE 0

\* Mutant: the namespace argument is not passed on to get_sandboxset.
get_sandboxset_replicas_DropsNamespace(self, name, namespace, reply) ==
    LET r == get_sandboxset(self, name, None, reply) IN
    IF r.outcome.kind = "return"
    THEN [r EXCEPT !.outcome = Return(SpecReplicas(r.outcome.value))]
    ELSE r

\* Mutant: a missing SandboxSet has no replicas.
get_sandboxset_replicas_ZeroWhenMissing(self, name, namespace, reply) ==
    LET r == get_sandboxset(self, name, namespace, reply) IN
    IF r.outcome.kind = "return"
    THEN [r EXCEPT !.outcome = Return(SpecReplicas(r.outcome.value))]
    ELSE IF r.outcome.exc.class = "SandboxSetNotFoundException"
         THEN [r EXCEPT !.outcome = Return(0)]
         ELSE r

get_sandboxset_replicas(self, name, namespace, reply) ==
    LET r == get_sandboxset(self, name, namespace, reply) IN
    IF r.outcome.kind = "return"
    THEN [r EXCEPT !.outcome = Return(SpecReplicas(r.outcome.value))]
    ELSE r

(***************************************************************************)
(* openkruise.agents clients: get goes straight to the transport with the  *)
(* client's own namespace.                                                 *)
(***************************************************************************)
\* Mutant: get translates a 404 as the agents_api_client clients do.
typed_get_Translates(self, name, reply) ==
    TranslateNotFound(
        PassThrough(self, [api |-> "get_namespaced_custom_object",
                           group |-> self.api_group, version |-> self.api_version,
                           namespace |-> self.namespace, plural |-> self.plural,
                           name |-> name], reply),
        SandboxNotFoundException(name, self.namespace))

typed_get(self, name, reply) ==
    PassThrough(self, [api |-> "get_namespaced_custom_object",
                       group |-> self.api_group, version |-> self.api_version,
                       namespace |-> self.namespace, plural |-> self.plural,
                       name |-> name], reply)

(***************************************************************************)
(* openkruise.agents clients: create takes a typed model (Sandbox,         *)
(* SandboxSet, SandboxClaim), assigns its apiVersion and kind, serializes  *)
(* it and posts the result.  A value assigned to an attribute is a Python  *)
(* str or a Python tuple; the two are kept apart by their type.            *)
(***************************************************************************)
PyStr(s) == [type |-> "str", value |-> s]
PyTuple(items) == [type |-> "tuple", items |-> items]

\* f"{self.group}/{self.version}"
ApiVersionOf(self) == self.api_group \o "/" \o self.api_version

\* A model object: the values of its fields, the fields that were set when it
\* was built or assigned since, and whether its class validates assignments.
Model(values, validate_assignment) ==
    [values |-> values @@ [apiVersion |-> None, kind |-> None, metadata |-> None,
                           spec |-> None, status |-> None],
     fields_set |-> DOMAIN values,
     validate_assignment |-> validate_assignment]

TypedModels ==
    {Model([metadata |-> [name |-> "sb-a"], spec |-> [replicas |-> 2]], v) :
        v \in BOOLEAN}

ValidationError(field) == [class |-> "ValidationError", field |-> field]

\* Whether the assignment `model.<field> = value` raises: apiVersion and kind
\* are str fields, and a class that validates assignments rejects a tuple.
AssignmentRaises(model, field, value) ==
    model.validate_assignment /\ value.type # "str"

\* The model after `model.<field> = value`.
SetAttr(model, field, value) ==
    [model EXCEPT !.values = [@ EXCEPT ![field] = value],
                  !.fields_set = @ \cup {field}]

\* model.model_dump(exclude_unset=True, by_alias=True): a dict of the fields
\* that were set, each with the value it holds.
model_dump(model) == [f \in model.fields_set |-> model.values[f]]

\* The body of a typed create after its two assignments: the first assignment
\* that raises ends the call before anything is sent.
typed_create(self, model, apiVersion, kind, reply) ==
    IF AssignmentRaises(model, "apiVersion", apiVersion)
    THEN [self |-> self, calls |-> <<>>, outcome |-> Raise(ValidationError("apiVersion"))]
    ELSE IF AssignmentRaises(model, "kind", kind)
    THEN [self |-> self, calls |-> <<>>, outcome |-> Raise(ValidationError("kind"))]
    ELSE LET assigned == SetAttr(SetAttr(model, "apiVersion", apiVersion), "kind", kind)
             body == model_dump(assigned) IN
         PassThrough(self, [api |-> "create_namespaced_custom_object",
                            group |-> self.api_group, version |-> self.api_version,
                            namespace |-> self.namespace, plural |-> self.plural,
                            body |-> body], reply)

\* openkruise SandboxClient.create_sandbox:
\*     sandbox.apiVersion = f"{self.group}/{self.version}"
\*     sandbox.kind = self.kind
typed_create_sandbox(self, sandbox, reply) ==
    typed_create(self, sandbox, PyStr(ApiVersionOf(self)), PyStr(self.kind), reply)

\* openkruise SandboxSetClient.create_sandboxset: each assignment ends in a
\* comma, so the value assigned is a tuple of one item:
\*     sandboxset.apiVersion = f"{self.group}/{self.version}",
\*     sandboxset.kind = self.kind,
typed_create_sandboxset(self, sandboxset, reply) ==
    typed_create(self, sandboxset, PyTuple(<<ApiVersionOf(self)>>),
                 PyTuple(<<self.kind>>), reply)

\* openkruise SandboxClaimClient.create_sandboxclaim: the same two lines, with
\* the same commas.
typed_create_sandboxclaim(self, sandbox_claim, reply) ==
    typed_create(self, sandbox_claim, PyTuple(<<ApiVersionOf(self)>>),
                 PyTuple(<<self.kind>>), reply)

\* openkruise SandboxClient.update_sandbox: serialize the model and patch.
typed_update_sandbox(self, name, sandbox, reply) ==
    LET sandbox_dict == model_dump(sandbox) IN
    PassThrough(self, [api |-> "patch_namespaced_custom_object",
                       group |-> self.api_group, version |-> self.api_version,
                       namespace |-> self.namespace, plural |-> self.plural,
                       name |-> name, body |-> sandbox_dict], reply)

\* openkruise SandboxSetClient.update_sandboxset / SandboxClaimClient.update_sandboxclaim:
\* the body is a dict and is patched as given.
typed_update_dict(self, name, body, reply) ==
    PassThrough(self, [api |-> "patch_namespaced_custom_object",
                       group |-> self.api_group, version |-> self.api_version,
                       namespace |-> self.namespace, plural |-> self.plural,
                       name |-> name, body |-> body], reply)

\* openkruise SandboxClient.delete_sandbox: the grace period goes in a
\* V1DeleteOptions body.
typed_delete_sandbox(self, name, grace_period_seconds, reply) ==
    LET body == DeleteOptions(grace_period_seconds) IN
    PassThrough(self, [api |-> "delete_namespaced_custom_object",
                       group |-> self.api_group, version |-> self.api_version,
                       namespace |-> self.namespace, plural |-> self.plural,
                       name |-> name, body |-> body], reply)

\* openkruise SandboxSetClient.delete_sandboxset / SandboxClaimClient.delete_sandboxclaim:
\* the grace period is a keyword argument of the call.
typed_delete_kwarg(self, name, grace_period_seconds, reply) ==
    PassThrough(self, [api |-> "delete_namespaced_custom_object",
                       group |-> self.api_group, version |-> self.api_version,
                       namespace |-> self.namespace, plural |-> self.plural,
                       name |-> name, grace_period_seconds |-> grace_period_seconds],
                reply)

typed_create_by_class(self, model, reply) ==
    CASE self.cls = "openkruise.SandboxClient" -> typed_create_sandbox(self, model, reply)
      [] self.cls = "openkruise.SandboxSetClient" ->
           typed_create_sandboxset(self, model, reply)
      [] self.cls = "openkruise.SandboxClaimClient" ->
           typed_create_sandboxclaim(self, model, reply)

(***************************************************************************)
(* Dispatch on the client's class, for the methods both agents_api_client  *)
(* classes define.                                                         *)
(***************************************************************************)
get_by_class(self, name, namespace, reply) ==
    IF self.cls = "agents_api_client.SandboxClient"
    THEN get_sandbox(self, name, namespace, reply)
    ELSE get_sandboxset(self, name, namespace, reply)

(***************************************************************************)
(* Watch events.  The server filters and orders them; the client sees a    *)
(* stream.  An ERROR event carries a Status object, which holds no         *)
(* conditions.                                                             *)
(***************************************************************************)
Condition(type, status) == [type |-> type, status |-> status]

ObjNoStatus == [metadata |-> [name |-> "sb-a"]]
ObjNoConditions == [metadata |-> [name |-> "sb-a"], status |-> [phase |-> "Pending"]]
ObjReady ==
    [metadata |-> [name |-> "sb-a"],
     status |-> [conditions |-> <<Condition("Ready", "True")>>]]
ObjAvailable ==
    [metadata |-> [name |-> "sb-a"],
     status |-> [conditions |-> <<Condition("Ready", "False"),
                                  Condition("Available", "True")>>]]
ObjError == [kind |-> "Status", code |-> 410, reason |-> "Expired"]
\* Another resource of the same kind and namespace, ready.
ObjOtherReady ==
    [metadata |-> [name |-> "sb-b"],
     status |-> [conditions |-> <<Condition("Ready", "True")>>]]

Event(type, object) == [type |-> type, object |-> object]

Events == {
    Event("ADDED", ObjNoStatus),
    Event("ADDED", ObjNoConditions),
    Event("MODIFIED", ObjReady),
    Event("MODIFIED", ObjAvailable),
    Event("DELETED", ObjReady),
    Event("MODIFIED", ObjOtherReady),
    Event("ERROR", ObjError) }

\* (name, condition_type, condition_status, timeout) of a wait call
WaitArgs == {<<"sb-a", "Ready", "True", 1>>, <<"sb-a", "Available", "True", 0>>,
             <<"sb-b", "Ready", "True", 0>>, <<"sb-b", "Available", "True", 1>>}
FieldSelectorArgs == {None, "metadata.name=sb-a"}

\* (label_selector, field_selector, timeout_seconds) of a watch call
WatchArgs == {<<None, None, <<>>>>, <<"app=test", None, <<5>>>>,
              <<None, "metadata.name=sb-a", <<>>>>}

\* Mutant: the wait watches the whole collection.
FieldSelectorOf_Unfiltered(name) == None

\* f"metadata.name={name}"
FieldSelectorOf(name) ==
    CASE name = "sb-a" -> "metadata.name=sb-a"
      [] name = "sb-b" -> "metadata.name=sb-b"

(***************************************************************************)
(* watch_resources: a generator.  Calling it runs nothing; the first       *)
(* next() resolves the namespace and opens the stream; each next() then    *)
(* blocks until the stream has an event or ends.                           *)
(***************************************************************************)
NoGen == [state |-> "none"]

\* The generator object made by a call of watch_resources, not yet started.
watch_resources(owner, namespace, label_selector, field_selector, timeout_seconds) ==
    [state |-> "created", owner |-> owner, namespace |-> namespace,
     label_selector |-> label_selector, field_selector |-> field_selector,
     timeout_seconds |-> timeout_seconds, taken |-> 0, asked |-> 0, yielded |-> <<>>]

\* The request watcher.stream issues when the generator body starts.
StreamRequest(self, g) ==
    LET ns == PyOr(g.namespace, self.namespace) IN
    [api |-> "list_namespaced_custom_object", watch |-> TRUE,
     group |-> self.api_group, version |-> self.api_version,
     namespace |-> ns, plural |-> self.plural,
     label_selector |-> g.label_selector, field_selector |-> g.field_selector,
     timeout_seconds |-> g.timeout_seconds]

\* The field_selector of the request, as the API server applies it: with
\* metadata.name=<name> the stream carries the events of that resource only.
\* An ERROR event carries a Status, not a resource, and is not filtered.
Selects(field_selector, event) ==
    IF field_selector = None \/ event.type = "ERROR"
    THEN TRUE
    ELSE field_selector = FieldSelectorOf(event.object.metadata.name)

StreamCall(self, g) == [request |-> StreamRequest(self, g), reply |-> [stream |-> TRUE]]

\* Events on the stream the generator has not taken yet.
Pending == SubSeq(sent, gen.taken + 1, Len(sent))

\* Events the generator has yielded to its consumer.
Delivered == SubSeq(sent, 1, gen.taken)

\* Mutant: ADDED events are read off the stream but not yielded.
Yield_SkipsAdded(g, event) ==
    [g EXCEPT !.state = "suspended", !.taken = @ + 1,
              !.yielded = IF event.type = "ADDED" THEN @ ELSE Append(@, event)]

\* `for event in watcher.stream(...): yield event`: the generator reads one
\* event off the stream, hands it to its consumer and is suspended.
Yield(g, event) ==
    [g EXCEPT !.state = "suspended", !.taken = @ + 1, !.yielded = Append(@, event)]

\* The consumer calls next(): the generator runs until its next yield.
Resume(g, state) == [g EXCEPT !.state = state, !.asked = @ + 1]

\* Mutant: the generator never breaks.
BreaksAfter_Never(event) == FALSE

\* `if event.get("type") == "ERROR": break`, run when the generator is resumed
\* after a yield.
BreaksAfter(event) == event.type = "ERROR"

(***************************************************************************)
(* wait_for_resource_condition                                             *)
(***************************************************************************)
IdleWait == [pc |-> "idle"]

\* Mutant: the status of the condition is not compared.
HasCondition_AnyStatus(resource, condition_type, condition_status) ==
    /\ "status" \in DOMAIN resource
    /\ "conditions" \in DOMAIN resource.status
    /\ \E i \in 1..Len(resource.status.conditions) :
          DictGet(resource.status.conditions[i], "type", None) = condition_type

\* Mutant: the type of the condition is not compared.
HasCondition_StatusOnly(resource, condition_type, condition_status) ==
    /\ "status" \in DOMAIN resource
    /\ "conditions" \in DOMAIN resource.status
    /\ \E i \in 1..Len(resource.status.conditions) :
          DictGet(resource.status.conditions[i], "status", None) = condition_status

\* Lines 323-327: whether the event's object carries the condition.
HasCondition(resource, condition_type, condition_status) ==
    /\ "status" \in DOMAIN resource
    /\ "conditions" \in DOMAIN resource.status
    /\ \E i \in 1..Len(resource.status.conditions) :
          LET condition == resource.status.conditions[i] IN
          /\ DictGet(condition, "type", None) = condition_type
          /\ DictGet(condition, "status", None) = condition_status

TimeoutError(message) == [class |-> "TimeoutError", message |-> message]

\* Line 330
DeadlineMessage(condition_type, condition_status, name, ns) ==
    <<"Timeout waiting for condition ", condition_type, "=", condition_status,
      " for resource ", name, " in namespace ", ns>>

\* Line 333
UnableToFindMessage(name, ns) == <<"Unable to find resource ", name, " in namespace ", ns>>

\* Mutant: the function falls off its end and returns None.
StreamEnded_ReturnsNone(name, ns) == Return(None)

\* Line 333: what the call gives when the for loop runs out of events.
StreamEnded(name, ns) == Raise(TimeoutError(UnableToFindMessage(name, ns)))

\* Line 330: what the call gives when the deadline check fires.
DeadlineExceeded(condition_type, condition_status, name, ns) ==
    Raise(TimeoutError(DeadlineMessage(condition_type, condition_status, name, ns)))

\* `time.time() > end_time`, line 329
PastDeadline(t, end_time) == t > end_time

\* Mutant: a DELETED event ends the wait, the resource being gone.
LoopStep_EndsOnDeleted(event, condition_type, condition_status, t, end_time) ==
    IF event.type = "DELETED" THEN "exhausted"
    ELSE IF HasCondition(event.object, condition_type, condition_status) THEN "return"
    ELSE IF PastDeadline(t, end_time) THEN "deadline"
    ELSE IF BreaksAfter(event) THEN "exhausted"
    ELSE "continue"

\* One iteration of the for loop on `event`, up to the next point where the
\* loop waits for the stream: "return", "deadline" (raise at line 330),
\* "exhausted" (the generator stops, raise at line 333) or "continue".
LoopStep(event, condition_type, condition_status, t, end_time) ==
    IF HasCondition(event.object, condition_type, condition_status) THEN "return"
    ELSE IF PastDeadline(t, end_time) THEN "deadline"
    ELSE IF BreaksAfter(event) THEN "exhausted"
    ELSE "continue"

(***************************************************************************)
(* Construction.  __init__ assigns the attributes, loads the Kubernetes    *)
(* configuration and makes the transport handle:                           *)
(*     try: config.load_incluster_config()                                 *)
(*     except config.ConfigException: config.load_kube_config()            *)
(*     self.custom_objects_api = client.CustomObjectsApi()                 *)
(* What each load does depends on where the process runs.                  *)
(***************************************************************************)
\* The frame of a constructor that has returned.
Constructed == [pc |-> "done"]

\* What load_incluster_config and load_kube_config can do: return, raise
\* ConfigException (no service account, no kubeconfig file), or raise another
\* error (a token file that cannot be read).
InClusterResults == {"ok", "ConfigException", "OSError"}
KubeConfigResults == {"ok", "ConfigException"}

Load(call, result) == [call |-> call, result |-> result]

\* Mutant: `except Exception:`, every failure of the in-cluster load falls back.
AfterInCluster_CatchesAll(result) ==
    IF result = "ok" THEN "make_api" ELSE "fallback"

\* Where __init__ goes after config.load_incluster_config(): on to the handle,
\* into the except clause, or out with the exception.
AfterInCluster(result) ==
    CASE result = "ok" -> "make_api"
      [] result = "ConfigException" -> "fallback"
      [] OTHER -> "raised"

\* Where __init__ goes after config.load_kube_config() in the except clause.
AfterKubeConfig(result) == IF result = "ok" THEN "make_api" ELSE "raised"

ConstructInit ==
    /\ client \in {[cls |-> cls] : cls \in Classes}
    /\ ctor \in {[pc |-> "attrs", namespace |-> ns, in_cluster |-> a, kube_config |-> b,
                  loads |-> <<>>, handle |-> FALSE] :
                    ns \in ConfigNamespaces, a \in InClusterResults,
                    b \in KubeConfigResults}
    /\ lastOp = [op |-> "__init__"]
    /\ calls = <<>>
    /\ outcome = [kind |-> "none"]
    /\ gen = NoGen
    /\ sent = <<>>
    /\ closed = FALSE
    /\ wait = IdleWait
    /\ now = 0
    /\ store = <<>>
    /\ history = <<>>

\* self.api_group = ..., self.namespace = namespace
CtorAssign ==
    /\ ctor.pc = "attrs"
    /\ client' = NewClient(client.cls, ctor.namespace)
    /\ ctor' = [ctor EXCEPT !.pc = "try"]
    /\ UNCHANGED <<lastOp, calls, outcome, gen, sent, closed, wait, now, store, history>>

\* try: config.load_incluster_config()
LoadInCluster ==
    /\ ctor.pc = "try"
    /\ ctor' = [ctor EXCEPT
                  !.loads = Append(@, Load("load_incluster_config", ctor.in_cluster)),
                  !.pc = AfterInCluster(ctor.in_cluster)]
    /\ outcome' = IF AfterInCluster(ctor.in_cluster) = "raised"
                  THEN Raise([class |-> ctor.in_cluster])
                  ELSE outcome
    /\ UNCHANGED <<client, lastOp, calls, gen, sent, closed, wait, now, store, history>>

\* except config.ConfigException: config.load_kube_config()
LoadKubeConfig ==
    /\ ctor.pc = "fallback"
    /\ ctor' = [ctor EXCEPT
                  !.loads = Append(@, Load("load_kube_config", ctor.kube_config)),
                  !.pc = AfterKubeConfig(ctor.kube_config)]
    /\ outcome' = IF AfterKubeConfig(ctor.kube_config) = "raised"
                  THEN Raise([class |-> ctor.kube_config])
                  ELSE outcome
    /\ UNCHANGED <<client, lastOp, calls, gen, sent, closed, wait, now, store, history>>

\* self.custom_objects_api = client.CustomObjectsApi()
MakeApi ==
    /\ ctor.pc = "make_api"
    /\ ctor' = [ctor EXCEPT !.handle = TRUE, !.pc = "done"]
    /\ outcome' = Return(None)
    /\ UNCHANGED <<client, lastOp, calls, gen, sent, closed, wait, now, store, history>>

ConstructNext == CtorAssign \/ LoadInCluster \/ LoadKubeConfig \/ MakeApi

ConstructSpec == ConstructInit /\ [][ConstructNext]_vars

(***************************************************************************)
(* The state machine.  The caller is one thread: it invokes one method at  *)
(* a time, and a method that blocks (next() on a watch, the wait loop)     *)
(* holds it until the stream lets it go on.  The model follows one         *)
(* invocation at a time: the caller lets go of a generator (Discard)       *)
(* before it invokes the next method.                                      *)
(***************************************************************************)
Init ==
    /\ client \in {NewClient(cls, ns) : cls \in Classes, ns \in ConfigNamespaces}
    /\ lastOp = [op |-> "__init__"]
    /\ calls = <<>>
    /\ outcome = [kind |-> "none"]
    /\ gen = NoGen
    /\ sent = <<>>
    /\ closed = FALSE
    /\ wait = IdleWait
    /\ now = 0
    /\ store = <<>>
    /\ history = <<>>
    /\ ctor = Constructed

\* The caller is free to invoke a method.
CanCall == gen.state = "none"

\* A method that makes its transport calls and returns or raises at once.
Invoke(op, r) ==
    /\ CanCall
    /\ client' = r.self
    /\ lastOp' = op
    /\ calls' = r.calls
    /\ outcome' = r.outcome
    /\ now' = 0
    /\ UNCHANGED <<ctor, store, history, gen, sent, closed, wait>>

Create ==
    /\ client.cls \in ApiClasses
    /\ \E body \in Bodies, namespace \in NamespaceArgs, reply \in Replies :
          Invoke([op |-> "create", body |-> body, namespace |-> namespace],
                 create_resource(client, body, namespace, reply))

Get ==
    /\ client.cls \in ApiClasses
    /\ \E name \in Names, namespace \in NamespaceArgs, reply \in Replies :
          Invoke([op |-> "get", name |-> name, namespace |-> namespace],
                 get_by_class(client, name, namespace, reply))

Update ==
    /\ client.cls \in ApiClasses
    /\ \E name \in Names, body \in Bodies, namespace \in NamespaceArgs, reply \in Replies :
          Invoke([op |-> "update", name |-> name, body |-> body, namespace |-> namespace],
                 update_resource(client, name, body, namespace, reply))

UpdateStatus ==
    /\ client.cls \in ApiClasses
    /\ \E name \in Names, body \in Bodies, namespace \in NamespaceArgs, reply \in Replies :
          Invoke([op |-> "updateStatus", name |-> name, body |-> body,
                  namespace |-> namespace],
                 update_resource_status(client, name, body, namespace, reply))

Delete ==
    /\ client.cls \in ApiClasses
    /\ \E name \in Names, namespace \in NamespaceArgs, grace \in GraceArgs,
          reply \in Replies :
          Invoke([op |-> "delete", name |-> name, namespace |-> namespace,
                  grace_period_seconds |-> grace],
                 delete_resource(client, name, namespace, grace, reply))

List ==
    /\ client.cls \in ApiClasses
    /\ \E namespace \in NamespaceArgs, label_selector \in SelectorArgs,
          field_selector \in FieldSelectorArgs, reply \in Replies :
          Invoke([op |-> "list", namespace |-> namespace,
                  label_selector |-> label_selector, field_selector |-> field_selector],
                 list_resources(client, namespace, label_selector, field_selector, reply))

Patch ==
    /\ client.cls \in ApiClasses
    /\ \E name \in Names, body \in Bodies, namespace \in NamespaceArgs,
          content_type \in ContentTypeArgs, reply \in Replies :
          Invoke([op |-> "patch", name |-> name, body |-> body, namespace |-> namespace,
                  content_type |-> content_type],
                 patch_resource(client, name, body, namespace,
                                Param(content_type, MERGE_PATCH), reply))

DeleteCollection ==
    /\ client.cls \in ApiClasses
    /\ \E namespace \in NamespaceArgs, label_selector \in SelectorArgs,
          field_selector \in FieldSelectorArgs, reply \in Replies :
          Invoke([op |-> "deleteCollection", namespace |-> namespace,
                  label_selector |-> label_selector, field_selector |-> field_selector],
                 delete_collection_resources(client, namespace, label_selector,
                                             field_selector, reply))

Scale ==
    /\ client.cls = "agents_api_client.SandboxSetClient"
    /\ \E name \in Names, replicas \in ReplicaArgs, namespace \in NamespaceArgs,
          reply \in Replies :
          Invoke([op |-> "scale", name |-> name, replicas |-> replicas,
                  namespace |-> namespace],
                 scale_sandboxset(client, name, replicas, namespace, reply))

GetReplicas ==
    /\ client.cls = "agents_api_client.SandboxSetClient"
    /\ \E name \in Names, namespace \in NamespaceArgs, reply \in Replies :
          Invoke([op |-> "getReplicas", name |-> name, namespace |-> namespace],
                 get_sandboxset_replicas(client, name, namespace, reply))

TypedGet ==
    /\ client.cls \in TypedClasses
    /\ \E name \in Names, reply \in Replies :
          Invoke([op |-> "get", name |-> name], typed_get(client, name, reply))

TypedCreate ==
    /\ client.cls \in TypedClasses
    /\ \E model \in TypedModels, reply \in Replies :
          Invoke([op |-> "typedCreate", model |-> model],
                 typed_create_by_class(client, model, reply))

TypedUpdate ==
    /\ client.cls \in TypedClasses
    /\ \E name \in Names, reply \in Replies :
          IF client.cls = "openkruise.SandboxClient"
          THEN \E sandbox \in TypedModels :
                  Invoke([op |-> "typedUpdate", name |-> name, model |-> sandbox],
                         typed_update_sandbox(client, name, sandbox, reply))
          ELSE \E body \in Bodies :
                  Invoke([op |-> "typedUpdate", name |-> name, body |-> body],
                         typed_update_dict(client, name, body, reply))

TypedDelete ==
    /\ client.cls \in TypedClasses
    /\ \E name \in Names, grace \in GraceArgs, reply \in Replies :
          Invoke([op |-> "typedDelete", name |-> name, grace_period_seconds |-> grace],
                 IF client.cls = "openkruise.SandboxClient"
                 THEN typed_delete_sandbox(client, name, grace, reply)
                 ELSE typed_delete_kwarg(client, name, grace, reply))

(***************************************************************************)
(* watch: the caller makes the generator and pulls items from it.          *)
(***************************************************************************)
\* watch_sandboxes / watch_sandboxsets (yield from self.watch_resources(...))
Watch ==
    /\ client.cls \in ApiClasses
    /\ CanCall
    /\ \E namespace \in NamespaceArgs, args \in WatchArgs :
          LET label_selector == args[1]
              field_selector == args[2]
              timeout_seconds == args[3] IN
          /\ lastOp' = [op |-> "watch", namespace |-> namespace,
                        label_selector |-> label_selector,
                        field_selector |-> field_selector,
                        timeout_seconds |-> timeout_seconds]
          /\ gen' = watch_resources("caller", namespace, label_selector, field_selector,
                                    timeout_seconds)
    /\ calls' = <<>>
    /\ outcome' = [kind |-> "generator"]
    /\ now' = 0
    /\ UNCHANGED <<ctor, store, history, client, sent, closed, wait>>

\* The consumer calls next().  The first call starts the generator body, which
\* opens the stream; a later call resumes it after the yield.
WatchNext ==
    /\ gen.state \in {"created", "suspended"}
    /\ gen.owner = "caller"
    /\ IF gen.state = "created"
       THEN /\ gen' = Resume(gen, "running")
            /\ calls' = <<StreamCall(client, gen)>>
       ELSE /\ gen' = Resume(gen, IF BreaksAfter(sent[gen.taken]) THEN "done"
                                  ELSE "running")
            /\ calls' = calls
    /\ UNCHANGED <<ctor, store, history, client, lastOp, outcome, sent, closed, wait, now>>

\* The stream has an event: the generator yields it.
WatchYield ==
    /\ gen.state = "running"
    /\ gen.owner = "caller"
    /\ Pending # <<>>
    /\ gen' = Yield(gen, Pending[1])
    /\ UNCHANGED <<ctor, store, history, client, lastOp, calls, outcome, sent, closed, wait, now>>

\* The stream has ended: the generator returns (StopIteration).
WatchEnd ==
    /\ gen.state = "running"
    /\ gen.owner = "caller"
    /\ Pending = <<>>
    /\ closed
    /\ gen' = [gen EXCEPT !.state = "done"]
    /\ UNCHANGED <<ctor, store, history, client, lastOp, calls, outcome, sent, closed, wait, now>>

(***************************************************************************)
(* wait_for_resource_condition                                             *)
(***************************************************************************)
\* Lines 315-319: resolve the namespace, fix the deadline, make the generator
\* and ask it for its first item.
WaitCall ==
    /\ client.cls \in ApiClasses
    /\ CanCall
    /\ now' = 0
    /\ \E args \in WaitArgs, namespace \in NamespaceArgs :
          LET name == args[1]
              condition_type == args[2]
              condition_status == args[3]
              timeout == args[4]
              ns == PyOr(namespace, client.namespace)
              end_time == now' + timeout
              g == watch_resources("wait", ns, None, FieldSelectorOf(name), <<>>) IN
          /\ lastOp' = [op |-> "waitForCondition", name |-> name,
                        condition_type |-> condition_type,
                        condition_status |-> condition_status,
                        timeout |-> timeout, namespace |-> namespace]
          /\ wait' = [pc |-> "running", ns |-> ns, end_time |-> end_time]
          /\ gen' = Resume(g, "running")
          /\ calls' = <<StreamCall(client, g)>>
    /\ outcome' = [kind |-> "pending"]
    /\ UNCHANGED <<ctor, store, history, client, sent, closed>>

\* Lines 318-331: the loop body on the next event of the stream.
WaitEvent ==
    /\ wait.pc = "running"
    /\ Pending # <<>>
    /\ LET event == Pending[1]
           step == LoopStep(event, lastOp.condition_type, lastOp.condition_status,
                            now, wait.end_time) IN
       /\ outcome' =
            CASE step = "return" -> Return(event.object)
              [] step = "deadline" ->
                   DeadlineExceeded(lastOp.condition_type, lastOp.condition_status,
                                    lastOp.name, wait.ns)
              [] step = "exhausted" -> StreamEnded(lastOp.name, wait.ns)
              [] OTHER -> outcome
       /\ wait' = [wait EXCEPT !.pc = IF step = "continue" THEN "running" ELSE "done"]
       /\ gen' = IF step = "continue"
                 THEN Resume(Yield(gen, event), "running")
                 ELSE [Yield(gen, event) EXCEPT !.state = "done"]
    /\ UNCHANGED <<ctor, store, history, client, lastOp, calls, sent, closed, now>>

\* Line 333: the stream ended, the for loop is over.
WaitStreamEnd ==
    /\ wait.pc = "running"
    /\ Pending = <<>>
    /\ closed
    /\ outcome' = StreamEnded(lastOp.name, wait.ns)
    /\ wait' = [wait EXCEPT !.pc = "done"]
    /\ gen' = [gen EXCEPT !.state = "done"]
    /\ UNCHANGED <<ctor, store, history, client, lastOp, calls, sent, closed, now>>

(***************************************************************************)
(* The caller stops iterating a watch, or is done with a finished wait:    *)
(* the generator and its stream are gone.                                  *)
(***************************************************************************)
Discard ==
    /\ gen.state \in {"created", "suspended", "done"}
    /\ gen' = NoGen
    /\ sent' = <<>>
    /\ closed' = FALSE
    /\ wait' = IdleWait
    /\ UNCHANGED <<ctor, store, history, client, lastOp, calls, outcome, now>>

(***************************************************************************)
(* The environment: the API server's side of an open stream, and time.     *)
(***************************************************************************)
StreamOpen == gen.state \in {"running", "suspended"} /\ ~closed

ServerSend ==
    /\ StreamOpen
    /\ Len(sent) < MaxEvents
    /\ \E e \in Events :
          /\ Selects(StreamRequest(client, gen).field_selector, e)
          /\ sent' = Append(sent, e)
    /\ UNCHANGED <<ctor, store, history, client, lastOp, calls, outcome, gen, closed, wait, now>>

ServerClose ==
    /\ StreamOpen
    /\ closed' = TRUE
    /\ UNCHANGED <<ctor, store, history, client, lastOp, calls, outcome, gen, sent, wait, now>>

\* The clock is read only by the wait loop, and only compared with end_time:
\* it is followed until it has passed end_time.  Time passes while the loop
\* waits for the stream; an event that is there is handled at once.
Tick ==
    /\ wait.pc = "running"
    /\ Pending = <<>>
    /\ now <= wait.end_time
    /\ now' = now + 1
    /\ UNCHANGED <<ctor, store, history, client, lastOp, calls, outcome, gen, sent, closed, wait>>

Next ==
    \/ Create \/ Get \/ Update \/ UpdateStatus \/ Delete \/ List \/ Patch
    \/ DeleteCollection \/ Scale \/ GetReplicas
    \/ TypedGet \/ TypedCreate \/ TypedUpdate \/ TypedDelete
    \/ Watch \/ WatchNext \/ WatchYield \/ WatchEnd
    \/ WaitCall \/ WaitEvent \/ WaitStreamEnd \/ Discard
    \/ ServerSend \/ ServerClose \/ Tick

Spec == Init /\ [][Next]_vars

(***************************************************************************)
(* The same client against a cluster.  The transport is now an API server  *)
(* that keeps the resources: a create stores the body under its            *)
(* metadata.name, a get reads it, a patch is applied as a JSON merge patch *)
(* (RFC 7386), a replace overwrites, a delete removes.  A resource is      *)
(* found under the coordinate of the request: group, version, namespace,   *)
(* plural and name.                                                        *)
(***************************************************************************)
MaxOps == 3         \* invocations followed against the cluster

\* The manifests the caller creates (basic_usage.py), reduced to the fields
\* the operations touch.
SetManifest ==
    [metadata |-> [name |-> "sb-a", labels |-> "app=example"],
     spec |-> [replicas |-> 2, template |-> "nginx:latest"]]
PlainManifest ==
    [metadata |-> [name |-> "sb-b", labels |-> "app=example"],
     spec |-> [template |-> "nginx:latest"]]

\* (body, namespace) of a create, (name, namespace) of the other calls
CreateArgs == {<<SetManifest, None>>, <<SetManifest, "other-ns">>, <<PlainManifest, None>>}
TargetArgs == {<<"sb-a", None>>, <<"sb-a", "other-ns">>, <<"sb-b", None>>}
UpdateBody == [metadata |-> [labels |-> "app=changed"], spec |-> [paused |-> TRUE]]

Key(request, name) ==
    <<request.group, request.version, request.namespace, request.plural, name>>

Ok(value) == [ok |-> TRUE, value |-> value]
Fail(status) == [ok |-> FALSE, status |-> status]

Put(s, key, doc) == [k \in DOMAIN s \cup {key} |-> IF k = key THEN doc ELSE s[k]]
Remove(s, key) == [k \in DOMAIN s \ {key} |-> s[k]]

\* JSON merge patch of one section (metadata, spec, status) of a document:
\* a member of the patch replaces the member of the same name.
MergeSection(section, patch) ==
    [f \in DOMAIN section \cup DOMAIN patch |->
        IF f \in DOMAIN patch THEN patch[f] ELSE section[f]]

\* JSON merge patch of a document: sections the patch does not name stay,
\* sections it names are merged member by member.
MergePatch(doc, patch) ==
    [k \in DOMAIN doc \cup DOMAIN patch |->
        IF k \notin DOMAIN patch THEN doc[k]
        ELSE IF k \notin DOMAIN doc THEN patch[k]
        ELSE MergeSection(doc[k], patch[k])]

HasName(body) == "metadata" \in DOMAIN body /\ "name" \in DOMAIN body.metadata

\* What the API server does with one request: its reply and its store after.
ClusterServe(s, request) ==
    CASE request.api = "create_namespaced_custom_object" ->
           IF ~HasName(request.body) THEN [reply |-> Fail(422), store |-> s]
           ELSE LET key == Key(request, request.body.metadata.name) IN
                IF key \in DOMAIN s THEN [reply |-> Fail(409), store |-> s]
                ELSE [reply |-> Ok(request.body), store |-> Put(s, key, request.body)]
      [] request.api = "get_namespaced_custom_object" ->
           LET key == Key(request, request.name) IN
           IF key \in DOMAIN s THEN [reply |-> Ok(s[key]), store |-> s]
           ELSE [reply |-> Fail(404), store |-> s]
      [] request.api = "patch_namespaced_custom_object" ->
           LET key == Key(request, request.name) IN
           IF key \in DOMAIN s
           THEN LET doc == MergePatch(s[key], request.body) IN
                [reply |-> Ok(doc), store |-> Put(s, key, doc)]
           ELSE [reply |-> Fail(404), store |-> s]
      [] request.api = "replace_namespaced_custom_object" ->
           LET key == Key(request, request.name) IN
           IF key \in DOMAIN s
           THEN [reply |-> Ok(request.body), store |-> Put(s, key, request.body)]
           ELSE [reply |-> Fail(404), store |-> s]
      [] request.api = "delete_namespaced_custom_object" ->
           LET key == Key(request, request.name) IN
           IF key \in DOMAIN s
           THEN [reply |-> Ok([kind |-> "Status", status |-> "Success"]),
                 store |-> Remove(s, key)]
           ELSE [reply |-> Fail(404), store |-> s]

ClusterInit ==
    /\ client \in {NewClient(cls, ns) : cls \in ApiClasses, ns \in ConfigNamespaces}
    /\ lastOp = [op |-> "__init__"]
    /\ calls = <<>>
    /\ outcome = [kind |-> "none"]
    /\ gen = NoGen
    /\ sent = <<>>
    /\ closed = FALSE
    /\ wait = IdleWait
    /\ now = 0
    /\ store = <<>>
    /\ history = <<>>
    /\ ctor = Constructed

\* The request a method sends.  A method builds its request before it has the
\* reply, so the request is the same whatever the reply: it is read off the
\* run of the method in which the transport fails.
RequestOf(r) == r.calls[1].request
NoReply == Fail(500)

\* One invocation against the cluster: `served` is what the cluster makes of
\* the method's request, r the run of the method on the cluster's reply.
ClusterInvoke(op, served, r) ==
    /\ Len(history) < MaxOps
    /\ client' = r.self
    /\ lastOp' = op
    /\ calls' = r.calls
    /\ outcome' = r.outcome
    /\ store' = served.store
    /\ history' = Append(history, [op |-> op, calls |-> r.calls, outcome |-> r.outcome])
    /\ UNCHANGED <<ctor, gen, sent, closed, wait, now>>

ClusterCreate ==
    \E args \in CreateArgs :
        LET body == args[1]
            namespace == args[2]
            served == ClusterServe(store,
                          RequestOf(create_resource(client, body, namespace, NoReply))) IN
        ClusterInvoke([op |-> "create", body |-> body, namespace |-> namespace], served,
                      create_resource(client, body, namespace, served.reply))

ClusterGet ==
    \E args \in TargetArgs :
        LET name == args[1]
            namespace == args[2]
            served == ClusterServe(store,
                          RequestOf(get_by_class(client, name, namespace, NoReply))) IN
        ClusterInvoke([op |-> "get", name |-> name, namespace |-> namespace], served,
                      get_by_class(client, name, namespace, served.reply))

ClusterUpdate ==
    \E args \in TargetArgs :
        LET name == args[1]
            namespace == args[2]
            served == ClusterServe(store,
                          RequestOf(update_resource(client, name, UpdateBody, namespace,
                                                    NoReply))) IN
        ClusterInvoke([op |-> "update", name |-> name, body |-> UpdateBody,
                       namespace |-> namespace], served,
                      update_resource(client, name, UpdateBody, namespace, served.reply))

ClusterDelete ==
    \E args \in TargetArgs :
        LET name == args[1]
            namespace == args[2]
            served == ClusterServe(store,
                          RequestOf(delete_resource(client, name, namespace, <<>>,
                                                    NoReply))) IN
        ClusterInvoke([op |-> "delete", name |-> name, namespace |-> namespace,
                       grace_period_seconds |-> <<>>], served,
                      delete_resource(client, name, namespace, <<>>, served.reply))

ClusterScale ==
    /\ client.cls = "agents_api_client.SandboxSetClient"
    /\ \E args \in TargetArgs, replicas \in ReplicaArgs :
          LET name == args[1]
              namespace == args[2]
              served == ClusterServe(store,
                            RequestOf(scale_sandboxset(client, name, replicas, namespace,
                                                       NoReply))) IN
          ClusterInvoke([op |-> "scale", name |-> name, replicas |-> replicas,
                         namespace |-> namespace], served,
                        scale_sandboxset(client, name, replicas, namespace, served.reply))

ClusterGetReplicas ==
    /\ client.cls = "agents_api_client.SandboxSetClient"
    /\ \E args \in TargetArgs :
          LET name == args[1]
              namespace == args[2]
              served == ClusterServe(store,
                            RequestOf(get_sandboxset_replicas(client, name, namespace,
                                                              NoReply))) IN
          ClusterInvoke([op |-> "getReplicas", name |-> name, namespace |-> namespace],
                        served,
                        get_sandboxset_replicas(client, name, namespace, served.reply))

ClusterNext ==
    \/ ClusterCreate \/ ClusterGet \/ ClusterUpdate \/ ClusterDelete
    \/ ClusterScale \/ ClusterGetReplicas

ClusterSpec == ClusterInit /\ [][ClusterNext]_vars

(***************************************************************************)
(* Properties.                                                             *)
(***************************************************************************)
\* The one transport call of the latest invocation.
TheRequest == calls[1].request
TheReply == calls[1].reply

GetFailedWith404 ==
    /\ lastOp.op = "get"
    /\ ~TheReply.ok
    /\ TheReply.status = 404

NotFoundClasses ==
    {"SandboxNotFoundException", "SandboxSetNotFoundException",
     "SandboxClaimNotFoundException"}

\* C1: in agents_api_client, a get whose transport call fails with status 404
\* raises SandboxNotFoundException (SandboxClient) or SandboxSetNotFoundException
\* (SandboxSetClient); the caller never gets the ApiException.
C1_Get404RaisesNotFound ==
    (client.cls \in ApiClasses /\ GetFailedWith404) =>
        /\ outcome.kind = "raise"
        /\ outcome.exc.class # "ApiException"
        /\ outcome.exc.class =
             IF client.cls = "agents_api_client.SandboxClient"
             THEN "SandboxNotFoundException"
             ELSE "SandboxSetNotFoundException"

C1_Witness ==
    /\ client.cls = "agents_api_client.SandboxSetClient"
    /\ GetFailedWith404
    /\ outcome.kind = "raise"
    /\ outcome.exc.class = "SandboxSetNotFoundException"

\* C2 as claimed: get on every specialized client, the openkruise clients
\* included, turns a 404 into a resource-specific not-found exception.
C2_EveryGetTranslates404 ==
    GetFailedWith404 =>
        /\ outcome.kind = "raise"
        /\ outcome.exc.class \in NotFoundClasses

\* C2 as amended: the agents_api_client clients turn a 404 of get into their
\* not-found exception; the openkruise clients (Sandbox, SandboxSet,
\* SandboxClaim) let the ApiException of status 404 reach the caller unchanged.
C2_OnlyApiClientsTranslate404 ==
    GetFailedWith404 =>
        /\ outcome.kind = "raise"
        /\ client.cls \in ApiClasses => outcome.exc.class \in NotFoundClasses
        /\ client.cls \in TypedClasses =>
              outcome.exc = [class |-> "ApiException", status |-> 404]

C2_Witness ==
    /\ client.cls = "openkruise.SandboxClaimClient"
    /\ GetFailedWith404
    /\ outcome.kind = "raise"
    /\ outcome.exc.class = "ApiException"

WaitFinished == lastOp.op = "waitForCondition" /\ wait.pc = "done"

\* Whether a resource document carries a condition (type, status).
Carries(object, type, status) ==
    /\ "status" \in DOMAIN object
    /\ "conditions" \in DOMAIN object.status
    /\ \E i \in DOMAIN object.status.conditions :
          /\ object.status.conditions[i].type = type
          /\ object.status.conditions[i].status = status

Wanted(object) == Carries(object, lastOp.condition_type, lastOp.condition_status)

\* C3 as claimed: a wait that ends after its deadline (no event with the
\* condition came in time) ends with a TimeoutError.
C3_PastDeadlineRaisesTimeout ==
    (WaitFinished /\ now > wait.end_time) =>
        /\ outcome.kind = "raise"
        /\ outcome.exc.class = "TimeoutError"

\* C4: when the wait returns, it returns the object of the first event of the
\* stream that carries the condition, and it has taken no event after it.
C4_ReturnsFirstMatch ==
    (WaitFinished /\ outcome.kind = "return") =>
        /\ gen.taken \in 1..Len(sent)
        /\ Wanted(sent[gen.taken].object)
        /\ \A j \in 1..(gen.taken - 1) : ~Wanted(sent[j].object)
        /\ outcome.value = sent[gen.taken].object

C4_Witness ==
    /\ WaitFinished
    /\ outcome.kind = "return"
    /\ gen.taken = 2
    /\ ~Wanted(sent[1].object)
    /\ outcome.value = sent[2].object

\* C5 as claimed: the wait cannot stay blocked once its deadline has passed:
\* with the stream open and silent it can still finish.
C5_NotBlockedPastDeadline ==
    (wait.pc = "running" /\ now > wait.end_time) =>
        ENABLED (WaitEvent \/ WaitStreamEnd)

\* C6: when the stream of a wait ends without having carried any event, the
\* wait raises a TimeoutError; it returns neither a document nor None.
C6_EmptyStreamRaisesTimeout ==
    (WaitFinished /\ sent = <<>>) =>
        /\ closed
        /\ outcome.kind = "raise"
        /\ outcome.exc.class = "TimeoutError"

C6_Witness ==
    /\ WaitFinished
    /\ sent = <<>>
    /\ closed
    /\ outcome.kind = "raise"
    /\ outcome.exc.class = "TimeoutError"

CallerWatch == gen.state # "none" /\ gen.owner = "caller"

\* C7: a watch yields the events of the stream in order; an ERROR event is
\* yielded and is the last one yielded; the sequence ends only after an ERROR
\* event or when the closed stream has no event left; a new call of watch
\* starts from a fresh stream.
C7_WatchEndsAtErrorOrClose ==
    CallerWatch =>
        /\ gen.taken \in 0..Len(sent)
        /\ \A i \in 1..(gen.taken - 1) : sent[i].type # "ERROR"
        /\ gen.state = "done" =>
              \/ gen.taken >= 1 /\ sent[gen.taken].type = "ERROR"
              \/ closed /\ gen.taken = Len(sent)
        /\ gen.state = "created" => gen.taken = 0 /\ sent = <<>> /\ ~closed

C7_Witness ==
    /\ CallerWatch
    /\ gen.state = "done"
    /\ gen.taken = 1
    /\ sent[1].type = "ERROR"
    /\ Len(sent) = 2
    /\ ~closed

\* The namespace every transport call of the latest invocation was sent to.
SentTo(ns) == \A i \in DOMAIN calls : calls[i].request.namespace = ns

TakesNamespace == "namespace" \in DOMAIN lastOp /\ calls # <<>>

\* C8 as claimed: the call goes to the per-call namespace whenever the caller
\* gives one, and to the client's namespace otherwise.
C8_GivenNamespaceIsUsed ==
    TakesNamespace =>
        SentTo(IF lastOp.namespace # None THEN lastOp.namespace ELSE client.namespace)

\* C8 as amended: the call goes to the per-call namespace when the caller
\* gives a non-empty one, and to the client's namespace when the argument is
\* absent (None) or the empty string.
C8_NonEmptyNamespaceIsUsed ==
    TakesNamespace =>
        SentTo(IF lastOp.namespace \notin {None, ""}
               THEN lastOp.namespace
               ELSE client.namespace)

C8_Witness ==
    /\ lastOp.op = "scale"
    /\ lastOp.namespace = ""
    /\ TheRequest.namespace = client.namespace

\* C9: no operation changes the client's coordinate (group, version, plural,
\* namespace).
C9_CoordinateNeverChanges == [][client' = client]_vars

C9_Witness ==
    /\ lastOp.op = "patch"
    /\ lastOp.namespace = "other-ns"
    /\ TheRequest.namespace = "other-ns"
    /\ client.namespace = "team-a"

\* What a caller gets from a method that hands on the transport's result.
HandsOnTheReply ==
    /\ TheReply.ok => outcome = [kind |-> "return", value |-> TheReply.value]
    /\ ~TheReply.ok =>
          outcome = [kind |-> "raise",
                     exc |-> [class |-> "ApiException", status |-> TheReply.status]]

ForwardsBodyAsPatch ==
    /\ Len(calls) = 1
    /\ TheRequest.api = "patch_namespaced_custom_object"
    /\ TheRequest.name = lastOp.name
    /\ TheRequest.body = lastOp.body
    /\ HandsOnTheReply

\* C10 as claimed: update and patch send the caller's body with a content
\* type, application/merge-patch+json unless the caller of patch gives one,
\* and hand on the transport's result.
C10_UpdateAndPatchSendContentType ==
    lastOp.op \in {"update", "patch"} =>
        /\ ForwardsBodyAsPatch
        /\ "content_type" \in DOMAIN TheRequest
        /\ TheRequest.content_type =
             IF lastOp.op = "patch" /\ lastOp.content_type # Omitted
             THEN lastOp.content_type
             ELSE "application/merge-patch+json"

\* C10 as amended: update and patch send the caller's body and hand on the
\* transport's result; patch also sends the content type (the caller's, or
\* application/merge-patch+json), while update sends no content type.
C10_OnlyPatchSendsContentType ==
    lastOp.op \in {"update", "patch"} =>
        /\ ForwardsBodyAsPatch
        /\ lastOp.op = "patch" =>
              /\ "content_type" \in DOMAIN TheRequest
              /\ TheRequest.content_type =
                   IF lastOp.content_type # Omitted
                   THEN lastOp.content_type
                   ELSE "application/merge-patch+json"
        /\ lastOp.op = "update" => "content_type" \notin DOMAIN TheRequest

C10_Witness ==
    /\ lastOp.op = "patch"
    /\ lastOp.content_type = Omitted
    /\ TheRequest.content_type = "application/merge-patch+json"
    /\ TheRequest.body = [spec |-> [paused |-> TRUE]]
    /\ TheReply.ok
    /\ outcome.kind = "return"

\* A member (section.field) of a stored document that a patch body names.
Mentions(body, section, field) ==
    section \in DOMAIN body /\ field \in DOMAIN body[section]

\* C11: an update that succeeds has sent one patch request (not a replace) for
\* the named resource with the caller's body, and against a cluster that
\* applies it as a merge patch every member of the stored resource that the
\* body does not mention is afterwards as it was, as is every other resource.
C11_UpdateKeepsUnmentionedFields ==
    [][(lastOp'.op = "update" /\ Len(history') = Len(history) + 1
            /\ outcome'.kind = "return") =>
        LET request == calls'[1].request
            key == Key(request, lastOp'.name) IN
        /\ Len(calls') = 1
        /\ request.api = "patch_namespaced_custom_object"
        /\ request.name = lastOp'.name
        /\ request.body = lastOp'.body
        /\ key \in DOMAIN store /\ DOMAIN store' = DOMAIN store
        /\ \A k \in DOMAIN store \ {key} : store'[k] = store[k]
        /\ \A section \in DOMAIN store[key] :
              /\ section \in DOMAIN store'[key]
              /\ \A field \in DOMAIN store[key][section] :
                    ~Mentions(lastOp'.body, section, field) =>
                        /\ field \in DOMAIN store'[key][section]
                        /\ store'[key][section][field] = store[key][section][field]
      ]_vars

C11_Witness ==
    /\ lastOp.op = "update"
    /\ lastOp.name = "sb-a"
    /\ outcome.kind = "return"
    /\ LET doc == store[Key(calls[1].request, "sb-a")] IN
       /\ doc.metadata = [name |-> "sb-a", labels |-> "app=changed"]
       /\ doc.spec = [replicas |-> 2, template |-> "nginx:latest", paused |-> TRUE]

\* C12: updateStatus issues exactly one transport call, to the patch endpoint
\* of the status subresource, for the named resource and with the caller's
\* body; it calls neither the main resource's patch endpoint nor the create
\* or delete endpoints.
C12_UpdateStatusPatchesStatusOnly ==
    lastOp.op = "updateStatus" =>
        /\ Len(calls) = 1
        /\ TheRequest.api = "patch_namespaced_custom_object_status"
        /\ TheRequest.name = lastOp.name
        /\ TheRequest.body = lastOp.body
        /\ \A i \in DOMAIN calls :
              calls[i].request.api \notin {"patch_namespaced_custom_object",
                                           "create_namespaced_custom_object",
                                           "delete_namespaced_custom_object"}

C12_Witness ==
    /\ lastOp.op = "updateStatus"
    /\ lastOp.body = [status |-> [replicas |-> 2, readyReplicas |-> 2]]
    /\ Len(calls) = 1
    /\ TheRequest.api = "patch_namespaced_custom_object_status"
    /\ TheRequest.body = [status |-> [replicas |-> 2, readyReplicas |-> 2]]
    /\ outcome.kind = "return"

\* C13: scale(name, N) sends one patch for that name whose body is exactly
\* {spec: {replicas: N}}, with no other key at either level, and the caller
\* gets the transport's response, or its error, unchanged.
C13_ScaleSendsReplicasOnly ==
    lastOp.op = "scale" =>
        /\ Len(calls) = 1
        /\ TheRequest.api = "patch_namespaced_custom_object"
        /\ TheRequest.name = lastOp.name
        /\ DOMAIN TheRequest.body = {"spec"}
        /\ DOMAIN TheRequest.body.spec = {"replicas"}
        /\ TheRequest.body.spec.replicas = lastOp.replicas
        /\ HandsOnTheReply

C13_Witness ==
    /\ lastOp.op = "scale"
    /\ lastOp.name = "sb-b"
    /\ lastOp.replicas = 5
    /\ TheRequest.name = "sb-b"
    /\ TheRequest.body = [spec |-> [replicas |-> 5]]
    /\ TheReply.ok
    /\ outcome = [kind |-> "return", value |-> TheReply.value]

\* C14: a getReplicas whose fetch succeeds returns the spec.replicas of the
\* fetched document when the document has one, and 0 when it has a spec
\* without replicas or no spec at all.
C14_ReplicasOrZero ==
    (lastOp.op = "getReplicas" /\ TheReply.ok) =>
        LET doc == TheReply.value IN
        /\ outcome.kind = "return"
        /\ ("spec" \in DOMAIN doc /\ "replicas" \in DOMAIN doc.spec) =>
              outcome.value = doc.spec.replicas
        /\ ("spec" \in DOMAIN doc /\ "replicas" \notin DOMAIN doc.spec) =>
              outcome.value = 0
        /\ "spec" \notin DOMAIN doc => outcome.value = 0

C14_Witness ==
    /\ lastOp.op = "getReplicas"
    /\ TheReply.ok
    /\ "spec" \notin DOMAIN TheReply.value
    /\ outcome = [kind |-> "return", value |-> 0]

\* The invocation made k invocations before the latest one (0: the latest).
Ago(k) == history[Len(history) - k]

\* Where the cluster keeps the resource `name` for a call of this client with
\* the namespace argument `namespace` (None, or a namespace).
StoredAt(name, namespace) ==
    <<client.api_group, client.api_version,
      IF namespace = None THEN client.namespace ELSE namespace,
      client.plural, name>>

\* The invocation h addresses the resource that the create c made.
SameResource(c, h) ==
    /\ h.op.name = c.op.body.metadata.name
    /\ h.op.namespace = c.op.namespace

CreatedWithReplicas(c) ==
    /\ c.op.op = "create"
    /\ c.outcome.kind = "return"
    /\ "replicas" \in DOMAIN c.op.body.spec

\* C15: against a cluster that applies merge patches, when a SandboxSet was
\* created with spec.replicas = M and scale(name, N) is the next call, the
\* scale succeeds and the stored resource is the created one with
\* spec.replicas = N and every other member as created; a getReplicas(name)
\* that follows then returns N.
C15_ScaleThenGetReplicas ==
    /\ (Len(history) >= 2 /\ CreatedWithReplicas(Ago(1)) /\ Ago(0).op.op = "scale"
            /\ SameResource(Ago(1), Ago(0))) =>
          LET created == Ago(1).op.body
              key == StoredAt(Ago(0).op.name, Ago(0).op.namespace) IN
          /\ outcome.kind = "return"
          /\ key \in DOMAIN store
          /\ store[key] = [created EXCEPT !.spec.replicas = Ago(0).op.replicas]
    /\ (Len(history) >= 3 /\ CreatedWithReplicas(Ago(2)) /\ Ago(1).op.op = "scale"
            /\ SameResource(Ago(2), Ago(1)) /\ Ago(0).op.op = "getReplicas"
            /\ SameResource(Ago(2), Ago(0))) =>
          LET created == Ago(2).op.body
              key == StoredAt(Ago(0).op.name, Ago(0).op.namespace) IN
          /\ outcome = [kind |-> "return", value |-> Ago(1).op.replicas]
          /\ store[key] = [created EXCEPT !.spec.replicas = Ago(1).op.replicas]

C15_Witness ==
    /\ Len(history) = 3
    /\ Ago(2).op.op = "create" /\ Ago(2).outcome.kind = "return"
    /\ Ago(2).op.body = SetManifest
    /\ Ago(2).op.body.spec.replicas = 2
    /\ Ago(2).op.namespace = "other-ns"
    /\ Ago(1).op = [op |-> "scale", name |-> "sb-a", replicas |-> 5,
                    namespace |-> "other-ns"]
    /\ Ago(0).op = [op |-> "getReplicas", name |-> "sb-a", namespace |-> "other-ns"]
    /\ outcome = [kind |-> "return", value |-> 5]

\* The invocation h deletes the resource that the create c made.
Deletes(c, h) == h.op.op = "delete" /\ SameResource(c, h)

\* C16: for each client (class and configured namespace) and each namespace
\* argument, when a create of a body with a metadata.name succeeded and no
\* delete of that resource came after it, a get of that name in the same
\* namespace returns a document whose metadata.name is the created name.
C16_CreateThenGetReturnsName ==
    \A i \in 1..(Len(history) - 1) :
        LET c == history[i] IN
        (/\ c.op.op = "create" /\ c.outcome.kind = "return"
         /\ HasName(c.op.body)
         /\ Ago(0).op.op = "get" /\ SameResource(c, Ago(0))
         /\ \A j \in (i + 1)..(Len(history) - 1) : ~Deletes(c, history[j])) =>
            /\ outcome.kind = "return"
            /\ outcome.value.metadata.name = c.op.body.metadata.name

C16_Witness ==
    /\ Len(history) = 3
    /\ client.namespace = "team-a"
    /\ Ago(2).op = [op |-> "create", body |-> SetManifest, namespace |-> "other-ns"]
    /\ Ago(2).outcome.kind = "return"
    /\ Ago(1).op.op = "update" /\ Ago(1).outcome.kind = "return"
    /\ Ago(0).op = [op |-> "get", name |-> "sb-a", namespace |-> "other-ns"]
    /\ outcome.kind = "return"
    /\ outcome.value.metadata.name = "sb-a"

\* C17: when the transport call of a get fails with a status other than 404
\* (401, 403, 409, 500), the caller gets that ApiException, with that status:
\* not a not-found exception, not a return.
C17_OtherErrorsPropagate ==
    (lastOp.op = "get" /\ ~TheReply.ok /\ TheReply.status # 404) =>
        /\ Len(calls) = 1
        /\ outcome = [kind |-> "raise",
                      exc |-> [class |-> "ApiException", status |-> TheReply.status]]

C17_Witness ==
    /\ client.cls = "agents_api_client.SandboxClient"
    /\ lastOp.op = "get"
    /\ ~TheReply.ok
    /\ TheReply.status = 403
    /\ outcome.kind = "raise"
    /\ outcome.exc = [class |-> "ApiException", status |-> 403]

\* The name and the namespace in the message of a not-found exception.
CarriedName(exc) == exc.message[3]
CarriedNamespace(exc) == exc.message[5]

RaisedNotFound ==
    /\ client.cls \in ApiClasses
    /\ GetFailedWith404
    /\ outcome.kind = "raise"
    /\ outcome.exc.class \in NotFoundClasses

\* C18 as claimed: the not-found exception of a get carries the requested name
\* and the namespace that was queried, which is the per-call namespace whenever
\* the caller gave one and the client's namespace otherwise.
C18_CarriesGivenNamespace ==
    RaisedNotFound =>
        /\ CarriedName(outcome.exc) = lastOp.name
        /\ CarriedNamespace(outcome.exc) = TheRequest.namespace
        /\ CarriedNamespace(outcome.exc) =
             IF lastOp.namespace # None THEN lastOp.namespace ELSE client.namespace

\* C18 as amended: the not-found exception of a get carries the requested name
\* and the namespace that was queried, which is the per-call namespace when
\* the caller gave a non-empty one and the client's namespace when the
\* argument is absent (None) or the empty string.
C18_CarriesQueriedNamespace ==
    RaisedNotFound =>
        /\ CarriedName(outcome.exc) = lastOp.name
        /\ CarriedNamespace(outcome.exc) = TheRequest.namespace
        /\ CarriedNamespace(outcome.exc) =
             IF lastOp.namespace \notin {None, ""}
             THEN lastOp.namespace
             ELSE client.namespace

C18_Witness ==
    /\ RaisedNotFound
    /\ client.cls = "agents_api_client.SandboxSetClient"
    /\ client.namespace = "team-a"
    /\ lastOp.name = "sb-b"
    /\ lastOp.namespace = "other-ns"
    /\ outcome.exc.message =
         <<"SandboxSet", " '", "sb-b", "' not found in namespace '", "other-ns", "'">>

\* C19 as claimed: a typed create of the openkruise Sandbox, SandboxSet and
\* SandboxClaim clients posts one body whose apiVersion is the string
\* "agents.kruise.io/v1alpha1" and whose kind is the string "Sandbox",
\* "SandboxSet" or "SandboxClaim" of the client.
C19_TypedCreateSendsStrings ==
    lastOp.op = "typedCreate" =>
        /\ Len(calls) = 1
        /\ TheRequest.api = "create_namespaced_custom_object"
        /\ TheRequest.body.apiVersion.type = "str"
        /\ TheRequest.body.apiVersion.value = "agents.kruise.io/v1alpha1"
        /\ TheRequest.body.kind.type = "str"
        /\ TheRequest.body.kind.value =
             CASE client.cls = "openkruise.SandboxClient" -> "Sandbox"
               [] client.cls = "openkruise.SandboxSetClient" -> "SandboxSet"
               [] client.cls = "openkruise.SandboxClaimClient" -> "SandboxClaim"

\* C20: create issues exactly one call, to the create endpoint, whose body is
\* the caller's body with nothing added, removed or changed; the caller gets
\* the transport's response unchanged, and when the transport rejects the
\* request (401, 403, 404, 409, 500) its ApiException unchanged.
C20_CreateSendsBodyAsIs ==
    lastOp.op = "create" =>
        /\ Len(calls) = 1
        /\ TheRequest.api = "create_namespaced_custom_object"
        /\ TheRequest.body = lastOp.body
        /\ HandsOnTheReply

C20_Witness ==
    /\ lastOp.op = "create"
    /\ lastOp.body = [metadata |-> [name |-> "sb-a"], spec |-> [replicas |-> 2]]
    /\ TheRequest.body = [metadata |-> [name |-> "sb-a"], spec |-> [replicas |-> 2]]
    /\ ~TheReply.ok
    /\ TheReply.status = 409
    /\ outcome = [kind |-> "raise", exc |-> [class |-> "ApiException", status |-> 409]]

\* The collection of each client class.
PluralOf(cls) ==
    CASE cls \in {"agents_api_client.SandboxClient", "openkruise.SandboxClient"} ->
           "sandboxes"
      [] cls \in {"agents_api_client.SandboxSetClient", "openkruise.SandboxSetClient"} ->
           "sandboxsets"
      [] cls = "openkruise.SandboxClaimClient" -> "sandboxclaims"

\* C21: every request a Sandbox, SandboxSet or SandboxClaim client issues, in
\* every operation (the watch stream included) and after every sequence of
\* operations, has group "agents.kruise.io", version "v1alpha1" and the plural
\* of the client's own resource type.
C21_RequestsUseOwnCoordinate ==
    \A i \in DOMAIN calls :
        /\ calls[i].request.group = "agents.kruise.io"
        /\ calls[i].request.version = "v1alpha1"
        /\ calls[i].request.plural = PluralOf(client.cls)

C21_Witness ==
    /\ client.cls = "openkruise.SandboxClaimClient"
    /\ lastOp.op = "typedDelete"
    /\ Len(calls) = 1
    /\ TheRequest.group = "agents.kruise.io"
    /\ TheRequest.version = "v1alpha1"
    /\ TheRequest.plural = "sandboxclaims"

\* The transport endpoint of each operation of the agents_api_client clients.
EndpointOf(op) ==
    CASE op = "create" -> "create_namespaced_custom_object"
      [] op \in {"get", "getReplicas"} -> "get_namespaced_custom_object"
      [] op \in {"update", "patch", "scale"} -> "patch_namespaced_custom_object"
      [] op = "updateStatus" -> "patch_namespaced_custom_object_status"
      [] op = "delete" -> "delete_namespaced_custom_object"
      [] op = "list" -> "list_namespaced_custom_object"
      [] op = "deleteCollection" -> "delete_collection_namespaced_custom_object"

\* C22: an invocation of create, get, update, updateStatus, patch, delete,
\* list, deleteCollection or scale has made exactly one transport call, to the
\* endpoint of that operation, whether the call succeeded or failed; an
\* invocation of getReplicas has made exactly one call, a get.
C22_OneCallPerInvocation ==
    lastOp.op \in {"create", "get", "update", "updateStatus", "patch", "delete",
                   "list", "deleteCollection", "scale", "getReplicas"} =>
        /\ Len(calls) = 1
        /\ TheRequest.api = EndpointOf(lastOp.op)

C22_Witness ==
    /\ lastOp.op = "deleteCollection"
    /\ ~TheReply.ok
    /\ TheReply.status = 500
    /\ Len(calls) = 1
    /\ outcome.kind = "raise"

\* The loads the constructor has made of one kind.
LoadsOf(call) == {i \in DOMAIN ctor.loads : ctor.loads[i].call = call}

\* C23: in a constructor, the in-cluster load is the first load attempted; the
\* kubeconfig load is made only after the in-cluster load has failed with a
\* ConfigException, never after it succeeded or failed otherwise; and the
\* transport handle exists only when the last load made has succeeded.
C23_InClusterFirstThenKubeConfig ==
    ctor # Constructed =>
        /\ ctor.loads # <<>> => ctor.loads[1].call = "load_incluster_config"
        /\ LoadsOf("load_incluster_config") \subseteq {1}
        /\ LoadsOf("load_kube_config") \subseteq {2}
        /\ LoadsOf("load_kube_config") # {} =>
              ctor.loads[1] = [call |-> "load_incluster_config",
                               result |-> "ConfigException"]
        /\ ctor.handle =>
              /\ ctor.loads # <<>>
              /\ ctor.loads[Len(ctor.loads)].result = "ok"
        /\ ctor.pc = "done" => ctor.handle

C23_Witness ==
    /\ ctor.pc = "done"
    /\ ctor # Constructed
    /\ ctor.handle
    /\ ctor.loads = <<[call |-> "load_incluster_config", result |-> "ConfigException"],
                      [call |-> "load_kube_config", result |-> "ok"]>>
    /\ client.cls = "openkruise.SandboxClient"
    /\ client.namespace = "team-a"

\* C24: a watch is lazy and pull-driven.  The generator has read no more
\* events off the stream than its consumer has asked for items, each item
\* asked for having read at most one event; before the first item is asked
\* for, the stream is not even open; and the items handed to the consumer are
\* the events the server sent, in the order sent, none missing and none twice.
C24_WatchIsLazyAndOrdered ==
    gen.state # "none" =>
        /\ gen.taken <= gen.asked
        /\ gen.taken <= Len(sent)
        /\ Len(gen.yielded) = gen.taken
        /\ gen.yielded = SubSeq(sent, 1, gen.taken)
        /\ gen.state = "created" => (gen.asked = 0 /\ calls = <<>> /\ sent = <<>>)
        /\ gen.state = "suspended" => gen.taken = gen.asked

C24_Witness ==
    /\ CallerWatch
    /\ gen.state = "suspended"
    /\ gen.asked = 1
    /\ Len(sent) = 2
    /\ gen.yielded = <<sent[1]>>
    /\ sent[1].type = "ADDED"
    /\ sent[2].type = "MODIFIED"

\* C25: list and deleteCollection make one transport call on their own
\* endpoint, carrying the caller's label selector and field selector as given
\* (None when the caller gives none), addressed to the per-call namespace when
\* that is a non-empty string and to the client's namespace otherwise; the
\* caller gets the transport's response, or its exception, as it is.
C25_ListForwardsSelectors ==
    lastOp.op \in {"list", "deleteCollection"} =>
        /\ Len(calls) = 1
        /\ TheRequest.api = IF lastOp.op = "list"
                            THEN "list_namespaced_custom_object"
                            ELSE "delete_collection_namespaced_custom_object"
        /\ TheRequest.label_selector = lastOp.label_selector
        /\ TheRequest.field_selector = lastOp.field_selector
        /\ TheRequest.namespace = IF lastOp.namespace \in {None, ""}
                                  THEN client.namespace
                                  ELSE lastOp.namespace
        /\ HandsOnTheReply

C25_Witness ==
    /\ lastOp.op = "deleteCollection"
    /\ lastOp.namespace = None
    /\ lastOp.label_selector = "app=test"
    /\ lastOp.field_selector # None
    /\ TheRequest.field_selector = lastOp.field_selector
    /\ TheRequest.label_selector = "app=test"
    /\ TheRequest.namespace = client.namespace
    /\ TheReply.ok
    /\ outcome = [kind |-> "return", value |-> TheReply.value]

\* The operations of agents_api_client that are not a get and make one
\* transport call.
UntranslatedOps ==
    {"create", "update", "updateStatus", "patch", "delete", "scale", "list",
     "deleteCollection"}

\* C26: when the transport call of an update, updateStatus, patch, delete,
\* scale, list or deleteCollection (or of a create) fails, whatever the status,
\* 404 included, the caller gets the transport's ApiException with that
\* status: never a not-found exception, never a return.
C26_OnlyGetTranslates404 ==
    (lastOp.op \in UntranslatedOps /\ calls # <<>> /\ ~TheReply.ok) =>
        /\ Len(calls) = 1
        /\ outcome.kind = "raise"
        /\ outcome.exc.class \notin NotFoundClasses
        /\ outcome.exc = [class |-> "ApiException", status |-> TheReply.status]

C26_Witness ==
    /\ client.cls = "agents_api_client.SandboxSetClient"
    /\ lastOp.op = "delete"
    /\ ~TheReply.ok
    /\ TheReply.status = 404
    /\ outcome = [kind |-> "raise", exc |-> [class |-> "ApiException", status |-> 404]]

\* C30: a getReplicas whose fetch fails never returns a number.  When the
\* fetch fails with 404 (no SandboxSet of that name) the caller gets a
\* SandboxSetNotFoundException naming the SandboxSet; when it fails with any
\* other status the caller gets the transport's ApiException with that status.
C30_ReplicasOfMissingRaises ==
    (lastOp.op = "getReplicas" /\ ~TheReply.ok) =>
        /\ Len(calls) = 1
        /\ TheRequest.api = "get_namespaced_custom_object"
        /\ TheRequest.name = lastOp.name
        /\ outcome.kind = "raise"
        /\ TheReply.status = 404 =>
              /\ outcome.exc.class = "SandboxSetNotFoundException"
              /\ CarriedName(outcome.exc) = lastOp.name
        /\ TheReply.status # 404 =>
              outcome.exc = [class |-> "ApiException", status |-> TheReply.status]

C30_Witness ==
    /\ lastOp.op = "getReplicas"
    /\ lastOp.name = "sb-b"
    /\ ~TheReply.ok
    /\ TheReply.status = 404
    /\ outcome.kind = "raise"
    /\ outcome.exc.class = "SandboxSetNotFoundException"

\* The stream request of the latest wait.
WaitWatch == lastOp.op = "waitForCondition" /\ calls # <<>>

ReturnsNamedResource ==
    (WaitFinished /\ outcome.kind = "return") =>
        outcome.value.metadata.name = lastOp.name

\* C27 as claimed: the watch a wait opens asks for the events of the named
\* resource only (field selector metadata.name=<name>), in the per-call
\* namespace whenever the caller gives one and in the client's namespace
\* otherwise; the document a wait returns is the named resource's.
C27_WaitWatchesGivenNamespace ==
    WaitWatch =>
        /\ Len(calls) = 1
        /\ TheRequest.watch
        /\ TheRequest.field_selector = FieldSelectorOf(lastOp.name)
        /\ TheRequest.namespace = IF lastOp.namespace # None
                                  THEN lastOp.namespace
                                  ELSE client.namespace
        /\ ReturnsNamedResource

\* C27 as amended: the watch a wait opens asks for the events of the named
\* resource only (field selector metadata.name=<name>, no label selector), in
\* the per-call namespace when the caller gives a non-empty one and in the
\* client's namespace when the argument is absent (None) or the empty string;
\* the document a wait returns is the named resource's.
C27_WaitWatchesNamedResource ==
    WaitWatch =>
        /\ Len(calls) = 1
        /\ TheRequest.watch
        /\ TheRequest.field_selector = FieldSelectorOf(lastOp.name)
        /\ TheRequest.label_selector = None
        /\ TheRequest.namespace = IF lastOp.namespace \in {None, ""}
                                  THEN client.namespace
                                  ELSE lastOp.namespace
        /\ ReturnsNamedResource

C27_Witness ==
    /\ WaitFinished
    /\ lastOp.name = "sb-b"
    /\ lastOp.namespace = ""
    /\ TheRequest.field_selector = "metadata.name=sb-b"
    /\ TheRequest.namespace = client.namespace
    /\ outcome.kind = "return"
    /\ outcome.value = ObjOtherReady

\* Whether an event's object has no status, or a status without conditions.
NoConditions(object) ==
    \/ "status" \notin DOMAIN object
    \/ "conditions" \notin DOMAIN object.status

\* The wait loop takes the next event of the stream.
WaitTakes == wait.pc = "running" /\ gen'.taken = gen.taken + 1

\* C28: a document a wait returns carries the requested condition, type and
\* status; a wait that ends otherwise ends with a TimeoutError, and does so
\* whenever it ends with no event of the stream carrying the condition, the
\* stream having ended included; and an event whose object has no status or
\* no status.conditions, taken before the deadline, leaves the wait running
\* with nothing raised.
C28_ReturnsOnlyMatchingDocuments ==
    /\ [](WaitFinished =>
            /\ outcome.kind \in {"return", "raise"}
            /\ outcome.kind = "return" => Wanted(outcome.value)
            /\ outcome.kind = "raise" => outcome.exc.class = "TimeoutError"
            /\ (\A j \in 1..Len(sent) : ~Wanted(sent[j].object)) =>
                  outcome.kind = "raise")
    /\ [][(/\ WaitTakes
           /\ sent[gen'.taken].type # "ERROR"
           /\ NoConditions(sent[gen'.taken].object)
           /\ ~PastDeadline(now, wait.end_time))
          => (wait'.pc = "running" /\ outcome'.kind = "pending")]_vars

C28_Witness ==
    /\ WaitFinished
    /\ Len(sent) = 2
    /\ gen.taken = 2
    /\ closed
    /\ NoConditions(sent[1].object)
    /\ ~NoConditions(sent[2].object)
    /\ ~Wanted(sent[2].object)
    /\ now <= wait.end_time
    /\ outcome.kind = "raise"
    /\ outcome.exc.class = "TimeoutError"

\* C29: the wait treats a DELETED event as any other.  When the wait loop
\* takes a DELETED event whose object carries the requested condition, the
\* wait returns that object; when the object does not carry it, the wait
\* goes on waiting if the deadline has not passed, and raises the deadline's
\* TimeoutError if it has.
C29_DeletedEventIsNotSpecial ==
    [][(WaitTakes /\ sent[gen'.taken].type = "DELETED") =>
          LET object == sent[gen'.taken].object IN
          IF Wanted(object)
          THEN wait'.pc = "done" /\ outcome' = [kind |-> "return", value |-> object]
          ELSE IF now <= wait.end_time
          THEN wait'.pc = "running" /\ outcome'.kind = "pending"
          ELSE /\ wait'.pc = "done"
               /\ outcome'.kind = "raise"
               /\ outcome'.exc.class = "TimeoutError"]_vars

C29_Witness ==
    /\ WaitFinished
    /\ Len(sent) = 2
    /\ gen.taken = 2
    /\ sent[1].type = "DELETED"
    /\ ~Wanted(sent[1].object)
    /\ Wanted(sent[2].object)
    /\ outcome = [kind |-> "return", value |-> sent[2].object]

====
